---- MODULE Spec2Model ----
(***************************************************************************)
(* Access-control resolution of the two investor-statement pages:          *)
(*   InvestorStatementsPage       (dashboard/investor-statements/page.tsx) *)
(*   InvestorStatementsAdminPage  (the admin statements page)              *)
(* One behaviour is one page request against one snapshot of the           *)
(* authentication provider and of the three tables the pages read.         *)
(* Every action is the code between two awaits of the page function.       *)
(***************************************************************************)
EXTENDS Integers, Sequences, FiniteSets, TLC

\* ------------------------------------------------------------------ bounds
NumContacts == 2    \* contact ids are 1..NumContacts
MaxOrgs == 2        \* org ids are 1..MaxOrgs, at most MaxOrgs membership rows

\* --------------------------------------------------------------- constants
\* `undefined` / SQL NULL of a numeric column or prop
Undefined == 0
\* contact_types_id of a Balance Sheet Investor
InvestorTypeId == 12

RoleNull == "<null>"
Roles == {"admin", "ADMIN", "standard", RoleNull}
ContactTypeIds == {Undefined, 7, InvestorTypeId}
ContactIds == 1 .. NumContacts
OrgIds == 1 .. MaxOrgs

\* ------------------------------------------------- results of the lookups
\* supabase.auth.getUser(): data.user is null or a user
NoUser == [null |-> TRUE, id |-> "undefined"]
AuthResults == {NoUser, [null |-> FALSE, id |-> "u1"]}

\* .from("contact").select("id, contact_types_id").single(): data is null
\* (no row, several rows, failed query) or the row
NoContact == [null |-> TRUE, id |-> Undefined, contact_types_id |-> Undefined]
ContactResults ==
  {NoContact} \cup [null : {FALSE}, id : ContactIds, contact_types_id : ContactTypeIds]

\* .from("auth_user_profiles").select("role").single()
NoProfile == [null |-> TRUE, role |-> "undefined"]
ProfileResults == {NoProfile} \cup [null : {FALSE}, role : Roles]

\* .from("user_clerk_org_members").select("org_id"): data is null (failed
\* query) or the list of rows
NoOrgs == [null |-> TRUE, rows |-> << >>]
SeqUpTo(S, n) == UNION {[1 .. k -> S] : k \in 0 .. n}
OrgsResults == {NoOrgs} \cup [null : {FALSE}, rows : SeqUpTo(OrgIds, MaxOrgs)]

Tables == {"contact", "auth_user_profiles", "user_clerk_org_members"}

VARIABLES
  page,        \* which page function runs: "investor" or "admin"
  pc,          \* position in the page function
  authRes,     \* what the authentication provider answers
  contactRes,  \* what the contact lookup answers
  profileRes,  \* what the profile lookup answers
  orgsRes,     \* what the membership query answers
  user, contactData, isInvestor, userData, isAdmin, userOrgs,  \* locals
  redirectTo,  \* "" or the target of redirect()
  rendered,    \* the components of the returned tree, in document order
  trace        \* the calls made so far, in order

vars == <<page, pc, authRes, contactRes, profileRes, orgsRes,
          user, contactData, isInvestor, userData, isAdmin, userOrgs,
          redirectTo, rendered, trace>>

env == <<page, authRes, contactRes, profileRes, orgsRes>>

\* ------------------------------------------------------ the page's tests
\* contactData?.contact_types_id === 12
IsInvestorTruthy(cd) == cd.contact_types_id # Undefined
IsInvestor(cd) == cd.contact_types_id = InvestorTypeId

\* userData?.role === "admin"   (investor page)
IsAdmin(ud) == ud.role = "admin"

\* userData?.role === "admin"   (admin page)
AdminPageIsAdminTruthy(ud) == ~ud.null /\ ud.role # RoleNull
AdminPageIsAdmin(ud) == ud.role = "admin"

\* !isInvestor && !isAdmin
NeitherInvestorNorAdmin(inv, adm) == ~inv /\ ~adm

\* userOrgs && userOrgs.length > 0
HasOrgsOffByOne(uo) == ~uo.null /\ Len(uo.rows) > 1
HasOrgs(uo) == ~uo.null /\ Len(uo.rows) > 0

\* !userOrgs || userOrgs.length === 0 || isAdmin
ShowSingleList(uo, adm) == uo.null \/ Len(uo.rows) = 0 \/ adm

\* isInvestor ? contactData?.id : undefined
SingleListInvestorIdDropped(inv, cd) == Undefined
SingleListInvestorId(inv, cd) == IF inv THEN cd.id ELSE Undefined

List(slot, investorId) ==
  [component |-> "InvestorStatementsList", slot |-> slot, investorId |-> investorId]

\* the two lists of the organization section
OrgSectionSwapped(cd) == <<List("individual", Undefined), List("organization", cd.id)>>
OrgSection(cd) == <<List("individual", cd.id), List("organization", Undefined)>>

\* the returned tree of the investor page
RenderLists(cd, inv, adm, uo) ==
  (IF HasOrgs(uo) THEN OrgSection(cd) ELSE << >>)
  \o (IF ShowSingleList(uo, adm)
        THEN <<List("single", SingleListInvestorId(inv, cd))>> ELSE << >>)

\* the returned tree of the admin page
AdminTree == <<[component |-> "InvestorStatementsAdmin", slot |-> "admin",
                investorId |-> Undefined]>>

\* The investor page as a function of the three lookups of an authenticated
\* request: the redirect target ("" when it renders) and the rendered lists.
InvestorPageOutcome(cRes, pRes, oRes) ==
  LET inv == IsInvestor(cRes)
      adm == IsAdmin(pRes)
      uo  == IF inv THEN oRes ELSE NoOrgs
  IN IF NeitherInvestorNorAdmin(inv, adm)
       THEN [redirectTo |-> "/dashboard", rendered |-> << >>]
       ELSE [redirectTo |-> "", rendered |-> RenderLists(cRes, inv, adm, uo)]

\* ------------------------------------------------------------------- Init
Init ==
  /\ page \in {"investor", "admin"}
  /\ pc = "getUser"
  /\ authRes \in AuthResults
  /\ contactRes \in ContactResults
  /\ profileRes \in ProfileResults
  /\ orgsRes \in OrgsResults
  /\ user = NoUser
  /\ contactData = NoContact
  /\ isInvestor = FALSE
  /\ userData = NoProfile
  /\ isAdmin = FALSE
  /\ userOrgs = NoOrgs
  /\ redirectTo = ""
  /\ rendered = << >>
  /\ trace = << >>

\* ---------------------------------------------------------- investor page
\* const { data: { user } } = await supabase.auth.getUser();
\* if (!user) redirect("/sign-in");
InvGetUserNoRedirect ==
  /\ page = "investor" /\ pc = "getUser"
  /\ user' = authRes
  /\ trace' = Append(trace, "auth.getUser")
  /\ pc' = "contact"
  /\ UNCHANGED <<env, contactData, isInvestor, userData, isAdmin, userOrgs,
                 redirectTo, rendered>>
InvGetUser ==
  /\ page = "investor" /\ pc = "getUser"
  /\ user' = authRes
  /\ IF authRes.null
       THEN /\ redirectTo' = "/sign-in"
            /\ pc' = "redirected"
            /\ trace' = trace \o <<"auth.getUser", "redirect">>
       ELSE /\ pc' = "contact"
            /\ trace' = Append(trace, "auth.getUser")
            /\ UNCHANGED redirectTo
  /\ UNCHANGED <<env, contactData, isInvestor, userData, isAdmin, userOrgs, rendered>>

\* contact lookup; isInvestor
InvContact ==
  /\ page = "investor" /\ pc = "contact"
  /\ contactData' = contactRes
  /\ isInvestor' = IsInvestor(contactRes)
  /\ trace' = Append(trace, "contact")
  /\ pc' = "profile"
  /\ UNCHANGED <<env, user, userData, isAdmin, userOrgs, redirectTo, rendered>>

\* profile lookup; isAdmin; if (!isInvestor && !isAdmin) redirect("/dashboard")
InvProfile ==
  /\ page = "investor" /\ pc = "profile"
  /\ userData' = profileRes
  /\ isAdmin' = IsAdmin(profileRes)
  /\ IF NeitherInvestorNorAdmin(isInvestor, IsAdmin(profileRes))
       THEN /\ redirectTo' = "/dashboard"
            /\ pc' = "redirected"
            /\ trace' = trace \o <<"auth_user_profiles", "redirect">>
       ELSE /\ pc' = "orgs"
            /\ trace' = Append(trace, "auth_user_profiles")
            /\ UNCHANGED redirectTo
  /\ UNCHANGED <<env, user, contactData, isInvestor, userOrgs, rendered>>

\* let userOrgs = null; if (isInvestor) { userOrgs = (membership query).data }
InvOrgsUnconditional ==
  /\ page = "investor" /\ pc = "orgs"
  /\ userOrgs' = orgsRes
  /\ trace' = Append(trace, "user_clerk_org_members")
  /\ pc' = "render"
  /\ UNCHANGED <<env, user, contactData, isInvestor, userData, isAdmin,
                 redirectTo, rendered>>
InvOrgs ==
  /\ page = "investor" /\ pc = "orgs"
  /\ IF isInvestor
       THEN /\ userOrgs' = orgsRes
            /\ trace' = Append(trace, "user_clerk_org_members")
       ELSE /\ userOrgs' = NoOrgs
            /\ UNCHANGED trace
  /\ pc' = "render"
  /\ UNCHANGED <<env, user, contactData, isInvestor, userData, isAdmin,
                 redirectTo, rendered>>

\* return ( ... )
InvRender ==
  /\ page = "investor" /\ pc = "render"
  /\ rendered' = RenderLists(contactData, isInvestor, isAdmin, userOrgs)
  /\ trace' = Append(trace, "render")
  /\ pc' = "rendered"
  /\ UNCHANGED <<env, user, contactData, isInvestor, userData, isAdmin, userOrgs,
                 redirectTo>>

\* ------------------------------------------------------------- admin page
AdmGetUser ==
  /\ page = "admin" /\ pc = "getUser"
  /\ user' = authRes
  /\ IF authRes.null
       THEN /\ redirectTo' = "/sign-in"
            /\ pc' = "redirected"
            /\ trace' = trace \o <<"auth.getUser", "redirect">>
       ELSE /\ pc' = "profile"
            /\ trace' = Append(trace, "auth.getUser")
            /\ UNCHANGED redirectTo
  /\ UNCHANGED <<env, contactData, isInvestor, userData, isAdmin, userOrgs, rendered>>

\* profile lookup; isAdmin; if (!isAdmin) redirect("/dashboard")
AdmProfile ==
  /\ page = "admin" /\ pc = "profile"
  /\ userData' = profileRes
  /\ isAdmin' = AdminPageIsAdmin(profileRes)
  /\ IF ~AdminPageIsAdmin(profileRes)
       THEN /\ redirectTo' = "/dashboard"
            /\ pc' = "redirected"
            /\ trace' = trace \o <<"auth_user_profiles", "redirect">>
       ELSE /\ pc' = "render"
            /\ trace' = Append(trace, "auth_user_profiles")
            /\ UNCHANGED redirectTo
  /\ UNCHANGED <<env, user, contactData, isInvestor, userOrgs, rendered>>

AdmRender ==
  /\ page = "admin" /\ pc = "render"
  /\ rendered' = AdminTree
  /\ trace' = Append(trace, "render")
  /\ pc' = "rendered"
  /\ UNCHANGED <<env, user, contactData, isInvestor, userData, isAdmin, userOrgs,
                 redirectTo>>

Next ==
  \/ InvGetUser
  \/ InvContact
  \/ InvProfile
  \/ InvOrgs
  \/ InvRender
  \/ AdmGetUser
  \/ AdmProfile
  \/ AdmRender

Spec == Init /\ [][Next]_vars

\* ------------------------------------------------------------ vocabulary
Done == pc \in {"rendered", "redirected"}
Authenticated == ~authRes.null
Issued(t) == \E i \in DOMAIN trace : trace[i] = t
Count(t) == Cardinality({i \in DOMAIN trace : trace[i] = t})
AdminComponentRendered == \E i \in DOMAIN rendered : rendered[i].component = "InvestorStatementsAdmin"
ListRendered == \E i \in DOMAIN rendered : rendered[i].component = "InvestorStatementsList"

TypeOK ==
  /\ pc \in {"getUser", "contact", "profile", "orgs", "render", "rendered", "redirected"}
  /\ redirectTo \in {"", "/sign-in", "/dashboard"}
  /\ (pc = "redirected") <=> (redirectTo # "")
  /\ (pc # "rendered") => rendered = << >>

\* The step-wise page and the page as a function agree on every finished,
\* authenticated request of the investor page.
OutcomeAgrees ==
  (page = "investor" /\ Authenticated /\ Done) =>
    InvestorPageOutcome(contactRes, profileRes, orgsRes)
      = [redirectTo |-> redirectTo, rendered |-> rendered]

\* What a statement list shows: every statement when it gets no investorId,
\* the statements of that investor otherwise.
AllStatements == [investor_id : ContactIds, org_id : OrgIds]
VisibleIn(list) ==
  IF list.investorId = Undefined
    THEN AllStatements
    ELSE {s \in AllStatements : s.investor_id = list.investorId}
VisibleOf(lists) == UNION {VisibleIn(lists[i]) : i \in DOMAIN lists}

RoleIsAdmin == ~profileRes.null /\ profileRes.role = "admin"
TypeIsInvestor == ~contactRes.null /\ contactRes.contact_types_id = 12
NoMemberships == orgsRes.null \/ Len(orgsRes.rows) = 0
InvestorRequest == page = "investor" /\ Authenticated
Before(a, i) == \E j \in 1 .. (i - 1) : trace[j] = a

\* ------------------------------------------------------------------- C1
\* C1: on the admin page an authenticated request renders the admin
\* component exactly when the profile lookup returned role "admin"; every
\* other role, a missing row or a failed lookup ends in a redirect to
\* /dashboard with nothing rendered; the contact table is never consulted,
\* so the contact classification cannot influence the decision.
C1_AdminGate ==
  (page = "admin" /\ Authenticated) =>
    /\ AdminComponentRendered => RoleIsAdmin
    /\ ~Issued("contact")
    /\ Done => /\ RoleIsAdmin => (pc = "rendered" /\ AdminComponentRendered)
               /\ ~RoleIsAdmin => (redirectTo = "/dashboard" /\ rendered = << >>)
C1_Witness ==
  /\ page = "admin" /\ pc = "rendered" /\ AdminComponentRendered
  /\ RoleIsAdmin /\ contactRes.null

\* ------------------------------------------------------------------- C2
\* C2: on the investor page an authenticated principal that is neither
\* admin nor investor is redirected to /dashboard: no list is rendered and
\* the membership query is never issued.
C2_NeitherIsDenied ==
  (InvestorRequest /\ ~RoleIsAdmin /\ ~TypeIsInvestor) =>
    /\ pc \in {"getUser", "contact", "profile", "redirected"}
    /\ rendered = << >>
    /\ ~Issued("user_clerk_org_members")
    /\ Done => redirectTo = "/dashboard"
C2_Witness ==
  /\ InvestorRequest /\ pc = "redirected" /\ redirectTo = "/dashboard"
  /\ profileRes.null /\ ~contactRes.null /\ contactRes.contact_types_id = 7

\* ------------------------------------------------------------------- C3
\* C3: on the investor page a list without any filter is rendered only to
\* principals whose role is "admin": for every other principal each
\* rendered list is filtered by the principal's own contact id.
C3_UnrestrictedOnlyForAdmin ==
  (InvestorRequest /\ ~RoleIsAdmin) =>
    \A i \in DOMAIN rendered :
      rendered[i].investorId # Undefined /\ rendered[i].investorId = contactRes.id

\* ------------------------------------------------------------------- C4
\* C4: on the investor page a principal with role "admin" is never sent to
\* /dashboard and the rendered lists always contain an unrestricted one;
\* an admin that is also an investor without memberships gets the single
\* list unrestricted, not filtered by contact id.
C4_AdminUnrestricted ==
  (InvestorRequest /\ RoleIsAdmin /\ Done) =>
    /\ pc = "rendered"
    /\ \E i \in DOMAIN rendered : rendered[i].investorId = Undefined
    /\ (TypeIsInvestor /\ NoMemberships) =>
         (Len(rendered) = 1 /\ rendered[1].investorId = Undefined)

\* ------------------------------------------------------------------- C5
\* C5 (as stated): an investor with at least one membership, whatever the
\* role, gets exactly two lists, the individual one filtered by the contact
\* id and the organizational one.
C5_ExactlyTwoLists ==
  (InvestorRequest /\ TypeIsInvestor /\ ~NoMemberships /\ Done) =>
    /\ pc = "rendered"
    /\ Len(rendered) = 2
    /\ rendered[1].slot = "individual" /\ rendered[1].investorId = contactRes.id
    /\ rendered[2].slot = "organization"
\* C5 (amended): an investor with at least one membership gets the
\* individual list filtered by the contact id followed by the
\* organizational list; no other list is rendered unless the role is
\* "admin", in which case exactly one more list, the single view, follows.
C5_TwoListsPlusAdminSingle ==
  (InvestorRequest /\ TypeIsInvestor /\ ~NoMemberships /\ Done) =>
    /\ pc = "rendered"
    /\ Len(rendered) = (IF RoleIsAdmin THEN 3 ELSE 2)
    /\ rendered[1].slot = "individual" /\ rendered[1].investorId = contactRes.id
    /\ rendered[2].slot = "organization" /\ rendered[2].investorId = Undefined
    /\ RoleIsAdmin => rendered[3].slot = "single"
C5_Witness ==
  /\ InvestorRequest /\ TypeIsInvestor /\ ~NoMemberships /\ pc = "rendered"
  /\ RoleIsAdmin /\ Len(rendered) = 3

\* ------------------------------------------------------------------- C6
\* C6: a non-admin investor without memberships (empty or absent result)
\* gets exactly one list, filtered by the id the contact lookup returned.
C6_OwnStatementsOnly ==
  (InvestorRequest /\ TypeIsInvestor /\ ~RoleIsAdmin /\ NoMemberships /\ Done) =>
    /\ pc = "rendered"
    /\ Len(rendered) = 1
    /\ rendered[1].component = "InvestorStatementsList"
    /\ rendered[1].investorId = contactRes.id
    /\ rendered[1].investorId # Undefined
C6_Witness ==
  /\ InvestorRequest /\ TypeIsInvestor /\ ~RoleIsAdmin /\ pc = "rendered"
  /\ orgsRes.null /\ Len(rendered) = 1

\* ------------------------------------------------------------------- C7
\* C7: on either page a request without a user ends in a redirect to
\* /sign-in right after the authentication call: no table is queried and
\* nothing is rendered; and every table query of a run comes after the
\* authentication call of that run, which returned a user.
C7_AuthFirst ==
  /\ (~Authenticated /\ pc # "getUser") =>
       /\ pc = "redirected" /\ redirectTo = "/sign-in"
       /\ trace = <<"auth.getUser", "redirect">>
       /\ rendered = << >>
  /\ \A i \in DOMAIN trace :
       trace[i] \in Tables => (Authenticated /\ ~user.null /\ Before("auth.getUser", i))
  /\ rendered # << >> => Authenticated
C7_Witness ==
  /\ ~Authenticated /\ pc = "redirected" /\ redirectTo = "/sign-in"

\* ------------------------------------------------------------------- C8
\* C8: on the investor page, replacing the result of one lookup (contact,
\* profile or memberships) by an absent one never shows a statement that
\* the request with the data present does not show, and every run ends in
\* a redirect or a render.
C8_AbsenceOnlyNarrows ==
  (InvestorRequest /\ Done) =>
    /\ pc \in {"rendered", "redirected"}
    /\ \A v \in {InvestorPageOutcome(NoContact, profileRes, orgsRes),
                 InvestorPageOutcome(contactRes, NoProfile, orgsRes),
                 InvestorPageOutcome(contactRes, profileRes, NoOrgs)} :
         VisibleOf(v.rendered) \subseteq VisibleOf(rendered)

\* ------------------------------------------------------------------- C9
\* C9: the membership query is issued exactly when the contact lookup
\* returned contact_types_id 12, at most once per request and only after
\* the contact and the profile lookups; an admin that is not an investor
\* never triggers it and the admin page never issues it.
C9_MembershipQuery ==
  /\ Count("user_clerk_org_members") <= 1
  /\ Issued("user_clerk_org_members") => (page = "investor" /\ TypeIsInvestor)
  /\ \A i \in DOMAIN trace :
       trace[i] = "user_clerk_org_members" =>
         (Before("contact", i) /\ Before("auth_user_profiles", i))
  /\ (InvestorRequest /\ TypeIsInvestor /\ pc \in {"render", "rendered", "redirected"})
       => Issued("user_clerk_org_members")
C9_Witness ==
  /\ InvestorRequest /\ pc = "rendered" /\ RoleIsAdmin /\ TypeIsInvestor
  /\ trace = <<"auth.getUser", "contact", "auth_user_profiles",
               "user_clerk_org_members", "render">>

\* ------------------------------------------------------------------ C10
\* C10: on the investor page a list meant to be investor-filtered (the
\* individual list, or the single list when isInvestor holds) gets the id
\* of a contact row whose contact_types_id is 12, never undefined; a
\* non-empty membership result implies isInvestor; a list without
\* investorId is the organizational list or goes to a non-investor admin.
C10_InvestorIdDefined ==
  page = "investor" =>
    /\ \A i \in DOMAIN rendered :
         /\ (rendered[i].slot = "individual" \/ (rendered[i].slot = "single" /\ isInvestor))
              => /\ TypeIsInvestor
                 /\ rendered[i].investorId = contactRes.id
                 /\ rendered[i].investorId # Undefined
         /\ rendered[i].investorId = Undefined
              => \/ rendered[i].slot = "organization"
                 \/ (RoleIsAdmin /\ ~TypeIsInvestor)
    /\ (~userOrgs.null /\ Len(userOrgs.rows) > 0) => (isInvestor /\ TypeIsInvestor)
C10_Witness ==
  /\ page = "investor" /\ pc = "rendered"
  /\ \E i \in DOMAIN rendered : rendered[i].slot = "individual"
  /\ ~userOrgs.null /\ Len(userOrgs.rows) > 0
====
